---- MODULE Spec2Model ----
(***************************************************************************)
(* shellEscapeArg (src/ts/index.ts): format a JavaScript string as a POSIX *)
(* shell argument literal.                                                 *)
(*                                                                         *)
(* A JavaScript string is modelled as the sequence of its UTF-16 code      *)
(* units (integers 0..65535), which is what charCodeAt, includes,          *)
(* startsWith, replaceAll and a regular expression without the u flag see; *)
(* a regular expression with the u flag reads code points, decoded from    *)
(* the code units as ECMAScript's CodePointAt does.                        *)
(***************************************************************************)
EXTENDS Integers, Sequences, FiniteSets

VARIABLES
  arg,            \* the value passed to the pending / last call
  outcome,        \* how the last call ended: returned value or thrown error
  pc,             \* "ready": arg is about to be passed, "done": the call ended
  metaLastIndex,  \* lastIndex of the RegExp object of hasShellMetaChars
  wsLastIndex,    \* lastIndex of the RegExp object of hasUnicodeWhitespace
  log             \* the calls made so far: <<[arg, outcome, quoting]>>

vars == <<arg, outcome, pc, metaLastIndex, wsLastIndex, log>>

----------------------------------------------------------------------------
(* Bounds of the model *)

\* longest string over Chars passed to a single call
MaxLen == 4
\* longest sequence of calls observed in SpecSeq
MaxCalls == 4

----------------------------------------------------------------------------
(* Code units and character classes *)

CodeUnits == 0..65535

NUL == 0
SQ == 39
BACKSLASH == 92
TILDE == 126

\* the class without "#"
ShellMetaChars_noHash ==
  {39, 34, 92, 36, 96, 124, 38, 59, 60, 62, 40, 41, 42, 63, 91, 93, 123, 125, 33}

\* the character class of /['"\\$`|&;<>()*?[\]{}!#]/
ShellMetaChars ==
  {39, 34, 92, 36, 96, 124, 38, 59, 60, 62, 40, 41, 42, 63, 91, 93, 123, 125, 33, 35}

\* the class \s instead: no U+0085, and U+FEFF
WhiteSpace_s ==
  (9..13) \cup {32, 160, 5760} \cup (8192..8202)
    \cup {8232, 8233, 8239, 8287, 12288, 65279}

\* \p{White_Space}: the code points with the Unicode White_Space property
WhiteSpace ==
  (9..13) \cup {32, 133, 160, 5760} \cup (8192..8202)
    \cup {8232, 8233, 8239, 8287, 12288}

----------------------------------------------------------------------------
(* String primitives of the runtime, as ECMAScript defines them.           *)
(* Indices are 0-based as in the source; s[i + 1] is the unit at index i.  *)

\* StringIndexOf(s, search, from): the least index k >= from at which search
\* occurs in s, or -1
StringIndexOf(s, search, from) ==
  LET hits == {k \in from..(Len(s) - Len(search)) :
                 SubSeq(s, k + 1, k + Len(search)) = search}
  IN IF hits = {} THEN -1 ELSE CHOOSE k \in hits : \A j \in hits : k <= j

includes(s, search) == StringIndexOf(s, search, 0) # -1

startsWith(s, search) ==
  Len(s) >= Len(search) /\ SubSeq(s, 1, Len(search)) = search

\* String.prototype.replaceAll with a string pattern: the matches are found
\* left to right, each search resuming after the previous match; the result is
\* the preserved stretches with the replacement in place of each match. (The
\* replacement used by the source holds no "$", so GetSubstitution returns it
\* as it is.)
RECURSIVE ReplaceFrom(_, _, _, _, _)
ReplaceFrom(s, search, replacement, endOfLastMatch, pos) ==
  IF pos = -1
  THEN SubSeq(s, endOfLastMatch + 1, Len(s))
  ELSE LET advanceBy == IF Len(search) > 1 THEN Len(search) ELSE 1
       IN SubSeq(s, endOfLastMatch + 1, pos) \o replacement \o
          ReplaceFrom(s, search, replacement, pos + Len(search),
                      StringIndexOf(s, search, pos + advanceBy))

replaceFirst(s, search, replacement) ==
  LET pos == StringIndexOf(s, search, 0)
  IN IF pos = -1 THEN s
     ELSE SubSeq(s, 1, pos) \o replacement \o SubSeq(s, pos + Len(search) + 1, Len(s))

replaceAll(s, search, replacement) ==
  ReplaceFrom(s, search, replacement, 0, StringIndexOf(s, search, 0))

\* CodePointAt(s, i): a lead surrogate followed by a trail surrogate is one
\* code point of two units, anything else is the unit itself
CodePointAt(s, i) ==
  LET first == s[i + 1]
  IN IF first \in 55296..56319 /\ i + 1 < Len(s) /\ s[i + 2] \in 56320..57343
     THEN [cp |-> (first - 55296) * 1024 + (s[i + 2] - 56320) + 65536, width |-> 2]
     ELSE [cp |-> first, width |-> 1]

\* The search loop of RegExpBuiltinExec for a pattern that is one character
\* class: try index i, then AdvanceStringIndex. The end index of the match,
\* or -1.
RECURSIVE RegExpSearch(_, _, _)
RegExpSearch(re, s, i) ==
  IF i >= Len(s) THEN -1
  ELSE LET ch == IF re.unicode THEN CodePointAt(s, i)
                 ELSE [cp |-> s[i + 1], width |-> 1]
       IN IF ch.cp \in re.class THEN i + ch.width
          ELSE RegExpSearch(re, s, i + ch.width)

\* RegExp.prototype.test: the search starts at lastIndex only for a global
\* regular expression, and only then is lastIndex written back.
RegExpTest(re, s) ==
  LET start == IF re.global THEN re.lastIndex ELSE 0
      e == IF start > Len(s) THEN -1 ELSE RegExpSearch(re, s, start)
  IN [matched |-> e # -1,
      lastIndex |-> IF ~re.global THEN re.lastIndex
                    ELSE IF e = -1 THEN 0 ELSE e]

----------------------------------------------------------------------------
(* JavaScript values and the ways a call ends *)

Str(s) == [type |-> "string", str |-> s]
Null == [type |-> "null"]
Num(n) == [type |-> "number", num |-> n]
Undefined == [type |-> "undefined"]

\* the typeof operator ("object" for null)
TypeOf(v) == IF v.type = "null" THEN "object" ELSE v.type

Return(s) == [kind |-> "return", value |-> s]
Throw(ctor, msg) == [kind |-> "throw", error |-> ctor, message |-> msg]
Pending == [kind |-> "pending"]

----------------------------------------------------------------------------
(* src/ts/index.ts *)

\* one RegExp object with the g flag, shared by every call
MetaRegExp_sharedGlobal(prevLastIndex) ==
  [class |-> ShellMetaChars, unicode |-> FALSE, global |-> TRUE,
   lastIndex |-> prevLastIndex]

\* Evaluating a regular expression literal creates a new RegExp object, its
\* lastIndex 0, whatever the object of an earlier evaluation was left with.
MetaRegExp(prevLastIndex) ==
  [class |-> ShellMetaChars, unicode |-> FALSE, global |-> FALSE, lastIndex |-> 0]

\* the literal without its u flag: \p{White_Space} is then the class of the
\* characters p { W h i t e _ S a c }
WsRegExp_noUnicodeFlag(prevLastIndex) ==
  [class |-> {112, 123, 87, 104, 105, 116, 101, 95, 83, 97, 99, 125},
   unicode |-> FALSE, global |-> FALSE, lastIndex |-> 0]

WsRegExp(prevLastIndex) ==
  [class |-> WhiteSpace, unicode |-> TRUE, global |-> FALSE, lastIndex |-> 0]

\* a tilde anywhere
startsWithTilde_anywhere(s) == includes(s, <<TILDE>>)

startsWithTilde(s) == startsWith(s, <<TILDE>>)

hasUnicodeWhitespace(s) == RegExpTest(WsRegExp(wsLastIndex), s).matched

\* the loop without the test for DEL
hasAsciiControlChars_noDEL(s) ==
  \E i \in 0..(Len(s) - 1) :
     LET code == s[i + 1]
     IN code >= 1 /\ code <= 31

hasAsciiControlChars(s) ==
  \E i \in 0..(Len(s) - 1) :
     LET code == s[i + 1]
     IN (code >= 1 /\ code <= 31) \/ code = 127

hasShellMetaChars(s) == RegExpTest(MetaRegExp(metaLastIndex), s).matched

\* the chain without the test for the empty string
needsQuoting_noEmpty(s) ==
  \/ startsWithTilde(s)
  \/ hasUnicodeWhitespace(s)
  \/ hasAsciiControlChars(s)
  \/ hasShellMetaChars(s)

needsQuoting(s) ==
  \/ Len(s) = 0
  \/ startsWithTilde(s)
  \/ hasUnicodeWhitespace(s)
  \/ hasAsciiControlChars(s)
  \/ hasShellMetaChars(s)

\* a backslash before the quote, the quotes left open
QuoteEscape_backslashOnly == <<BACKSLASH, SQ>>

\* the replacement of a single quote: close, escaped quote, reopen
QuoteEscape == <<SQ, BACKSLASH, SQ, SQ>>

isString(v) == TypeOf(v) = "string"

\* NUL looked for at the start only
includesNUL_leading(s) == startsWith(s, <<NUL>>)

includesNUL(s) == includes(s, <<NUL>>)

\* the message without its prefix
TypeErrorMessage_noPrefix == "arg must be a string"

TypeErrorMessage == "escape: arg must be a string"

NulErrorMessage == "escape: arg must not include NUL (\\u0000)"

shellEscapeArg(v) ==
  IF ~isString(v)
  THEN Throw("TypeError", TypeErrorMessage)
  ELSE IF includesNUL(v.str)
  THEN Throw("Error", NulErrorMessage)
  ELSE IF ~needsQuoting(v.str)
  THEN Return(v.str)
  ELSE Return(<<SQ>> \o replaceAll(v.str, <<SQ>>, QuoteEscape) \o <<SQ>>)

\* How far a call gets: needsQuoting is called only past the two checks, and
\* its || chain evaluates each classifier only when those before it are false.
reachesNeedsQuoting(v) == isString(v) /\ ~includesNUL(v.str)

testsWhitespace(v) ==
  reachesNeedsQuoting(v) /\ Len(v.str) # 0 /\ ~startsWithTilde(v.str)

testsMetaChars(v) ==
  testsWhitespace(v) /\ ~hasUnicodeWhitespace(v.str) /\ ~hasAsciiControlChars(v.str)

\* what a caller observes of one call
Observation(v) ==
  [arg |-> v,
   outcome |-> shellEscapeArg(v),
   quoting |-> IF reachesNeedsQuoting(v)
               THEN (IF needsQuoting(v.str) THEN "true" ELSE "false")
               ELSE "not called"]

----------------------------------------------------------------------------
(* Inputs *)

\* code units that stand for each class the classifiers tell apart: NUL, a
\* letter, quote, backslash, tilde, space, ESC, DEL, NBSP, dollar, hyphen,
\* zero width space (no White_Space), and the surrogate pair of an emoji
Chars == {0, 97, 39, 92, 126, 32, 27, 127, 160, 36, 45, 8203, 55357, 56397}

Words == UNION {[1..n -> Chars] : n \in 0..MaxLen}

\* a code unit alone, leading, trailing and interior
SweepForms(u) == {<<u>>, <<u, 97>>, <<97, u>>, <<97, u, 97>>}

NonStrings == {Null, Num(123), Undefined}

\* the inputs of a sequence of calls
SeqInputs ==
  {Null, Num(123), Str(<<>>), Str(<<97>>), Str(<<97, 32, 98>>), Str(<<97, 39, 98>>),
   Str(<<126>>), Str(<<97, 0>>), Str(<<36, 97>>), Str(<<97, 160>>)}

\* the arguments of a command line: "", -r, "x y", *x, a quote, x', x\, ~, x
JoinInputs ==
  {Str(<<>>), Str(<<45, 114>>), Str(<<120, 32, 121>>), Str(<<42, 120>>), Str(<<39>>),
   Str(<<120, 39>>), Str(<<120, 92>>), Str(<<126>>), Str(<<120>>)}

----------------------------------------------------------------------------
(* README.md, Example: Logging Commands *)

\* Array.prototype.join: the elements with the separator between them
RECURSIVE join(_, _)
join(list, sep) ==
  IF list = <<>> THEN <<>>
  ELSE IF Len(list) = 1 THEN list[1]
  ELSE list[1] \o sep \o join(Tail(list), sep)

\* args.map(shellEscapeArg).join(" "), for the calls of the map made so far,
\* all of which returned
formatted == join([i \in 1..Len(log) |-> log[i].outcome.value], <<32>>)

----------------------------------------------------------------------------
(* The state machine *)

InitWith(v) ==
  /\ arg = v
  /\ outcome = Pending
  /\ pc = "ready"
  /\ metaLastIndex = 0
  /\ wsLastIndex = 0
  /\ log = <<>>

\* one call of shellEscapeArg(arg), from entry to return or throw
Escape ==
  /\ pc = "ready"
  /\ outcome' = shellEscapeArg(arg)
  /\ wsLastIndex' = IF testsWhitespace(arg)
                    THEN RegExpTest(WsRegExp(wsLastIndex), arg.str).lastIndex
                    ELSE wsLastIndex
  /\ metaLastIndex' = IF testsMetaChars(arg)
                      THEN RegExpTest(MetaRegExp(metaLastIndex), arg.str).lastIndex
                      ELSE metaLastIndex
  /\ log' = Append(log, Observation(arg))
  /\ pc' = "done"
  /\ UNCHANGED arg

\* the caller passes another value
Pass(v) ==
  /\ pc = "done"
  /\ Len(log) < MaxCalls
  /\ arg' = v
  /\ outcome' = Pending
  /\ pc' = "ready"
  /\ UNCHANGED <<metaLastIndex, wsLastIndex, log>>

\* the call's input: a string over Chars, any code unit in each position of a
\* short string, or a value that is no string
Init ==
  \/ \E s \in Words : InitWith(Str(s))
  \/ \E u \in CodeUnits : \E s \in SweepForms(u) : InitWith(Str(s))
  \/ \E v \in NonStrings : InitWith(v)
Next == Escape
Spec == Init /\ [][Next]_vars

InitSeq == \E v \in SeqInputs : InitWith(v)
NextSeq == Escape \/ \E v \in SeqInputs : Pass(v)
SpecSeq == InitSeq /\ [][NextSeq]_vars

\* args.map(shellEscapeArg): one call for each argument of a list
InitJoin == \E v \in JoinInputs : InitWith(v)
NextJoin == Escape \/ \E v \in JoinInputs : Pass(v)
SpecJoin == InitJoin /\ [][NextJoin]_vars

----------------------------------------------------------------------------
(* The reading of a text by a POSIX shell (XCU 2.2 Quoting, 2.3 Token       *)
(* Recognition, 2.6 Word Expansions), as far as literal words go: inside    *)
(* single quotes every character is literal; outside, a backslash makes the *)
(* next character literal (and removes a following newline), an unquoted    *)
(* blank ends the word, and an unquoted tilde at the start of a word or any *)
(* unquoted expansion, pattern, operator, double quote, history or comment  *)
(* character makes the text something other than a list of literal words    *)
(* (ok = FALSE), as do an unclosed quote and a trailing backslash.          *)

ShBlank == {32, 9, 10}

ShSpecial ==
  {34, 36, 96, 124, 38, 59, 60, 62, 40, 41, 42, 63, 91, 93, 123, 125, 33, 35}

ShFail == [ok |-> FALSE, words |-> <<>>]

RECURSIVE ShScan(_, _, _, _, _, _)
ShScan(t, i, quoted, inWord, cur, words) ==
  IF i > Len(t)
  THEN IF quoted THEN ShFail
       ELSE [ok |-> TRUE, words |-> IF inWord THEN Append(words, cur) ELSE words]
  ELSE LET c == t[i]
       IN IF quoted
          THEN IF c = 39
               THEN ShScan(t, i + 1, FALSE, TRUE, cur, words)
               ELSE ShScan(t, i + 1, TRUE, TRUE, Append(cur, c), words)
          ELSE IF c = 39
          THEN ShScan(t, i + 1, TRUE, TRUE, cur, words)
          ELSE IF c = 92
          THEN IF i = Len(t) THEN ShFail
               ELSE IF t[i + 1] = 10
               THEN ShScan(t, i + 2, FALSE, inWord, cur, words)
               ELSE ShScan(t, i + 2, FALSE, TRUE, Append(cur, t[i + 1]), words)
          ELSE IF c \in ShBlank
          THEN ShScan(t, i + 1, FALSE, FALSE, <<>>,
                      IF inWord THEN Append(words, cur) ELSE words)
          ELSE IF (c = 126 /\ ~inWord) \/ c \in ShSpecial
          THEN ShFail
          ELSE ShScan(t, i + 1, FALSE, TRUE, Append(cur, c), words)

ShParse(t) == ShScan(t, 1, FALSE, FALSE, <<>>, <<>>)

----------------------------------------------------------------------------
(* What the claims speak of *)

Called == pc = "done"

IsString == arg.type = "string"

NulFree == IsString /\ \A i \in 1..Len(arg.str) : arg.str[i] # 0

\* the meta-characters as listed: ' " \ $ ` | & ; < > ( ) * ? [ ] { } ! #
BlacklistListed ==
  {39, 34, 92, 36, 96, 124, 38, 59, 60, 62, 40, 41, 42, 63, 91, 93, 123, 125, 33, 35}

\* U+0009..U+000D, U+0020, U+0085, U+00A0, U+1680, U+2000..U+200A, U+2028,
\* U+2029, U+202F, U+205F, U+3000
WhiteSpaceListed ==
  (9..13) \cup {32, 133, 160, 5760} \cup (8192..8202)
    \cup {8232, 8233, 8239, 8287, 12288}

\* U+0001..U+001F and U+007F
ControlListed == (1..31) \cup {127}

Contains(s, S) == \E i \in 1..Len(s) : s[i] \in S

\* the quoting triggers (a)-(e)
Trigger(s) ==
  \/ s = <<>>
  \/ (Len(s) > 0 /\ s[1] = 126)
  \/ Contains(s, WhiteSpaceListed)
  \/ Contains(s, ControlListed)
  \/ Contains(s, BlacklistListed)

\* a quote, the input with '\'' for each quote and every other character as
\* it is, a quote
RECURSIVE QuotedBody(_)
QuotedBody(s) ==
  IF s = <<>> THEN <<>>
  ELSE (IF Head(s) = 39 THEN <<39, 92, 39, 39>> ELSE <<Head(s)>>) \o QuotedBody(Tail(s))

QuotedForm(s) == <<39>> \o QuotedBody(s) \o <<39>>

\* the number of places of t at which pat occurs
Occurrences(t, pat) ==
  Cardinality({k \in 0..(Len(t) - Len(pat)) : SubSeq(t, k + 1, k + Len(pat)) = pat})

CountOf(s, c) == Cardinality({i \in 1..Len(s) : s[i] = c})

----------------------------------------------------------------------------
(* The claims *)

\* C1: for a string without NUL, the returned literal read as a POSIX shell
\* word is exactly one argument, equal to the input.
C1_RoundTrip ==
  (Called /\ NulFree) =>
     /\ outcome.kind = "return"
     /\ ShParse(outcome.value) = [ok |-> TRUE, words |-> <<arg.str>>]

\* the input '\' was quoted and reads back as itself
C1_Witness ==
  /\ Called
  /\ arg = Str(<<39, 92, 39>>)
  /\ outcome.kind = "return"
  /\ outcome.value # arg.str
  /\ ShParse(outcome.value).words = <<arg.str>>

\* C2: for a string without NUL for which a quoting trigger holds, the result
\* is a quote, the input with every quote replaced by '\'' , and a quote; the
\* empty input gives ''.
C2_QuotedForm ==
  (Called /\ NulFree /\ Trigger(arg.str)) =>
     /\ outcome = Return(QuotedForm(arg.str))
     /\ (arg.str = <<>> => outcome = Return(<<39, 39>>))

C2_Witness ==
  /\ Called
  /\ arg = Str(<<>>)
  /\ outcome = Return(<<39, 39>>)

\* C3: for a string without NUL for which no quoting trigger holds, the result
\* is the input itself.
C3_FastPath ==
  (Called /\ NulFree /\ ~Trigger(arg.str)) => outcome = Return(arg.str)

\* "a~a", "-a" and a string of an emoji were returned as they are
C3_Witness ==
  /\ Called
  /\ arg \in {Str(<<97, 126, 97>>), Str(<<45, 97>>), Str(<<55357, 56397>>)}
  /\ ~Trigger(arg.str)
  /\ outcome = Return(arg.str)

\* C4 (as amended): a value that is no string makes the call throw a TypeError
\* with the message "escape: arg must be a string", before anything else is
\* done (needsQuoting is not called, no value is returned).
C4_TypeError ==
  (Called /\ ~IsString) =>
     /\ outcome = Throw("TypeError", "escape: arg must be a string")
     /\ log[Len(log)].quoting = "not called"

C4_Witness ==
  /\ Called
  /\ arg = Num(123)
  /\ outcome.kind = "throw"
  /\ outcome.error = "TypeError"

\* C4 as stated: the message is exactly "arg must be a string"
C4_Original ==
  (Called /\ ~IsString) =>
     /\ outcome.kind = "throw"
     /\ outcome.error = "TypeError"
     /\ outcome.message = "arg must be a string"

\* C5 (as amended): a string with NUL anywhere makes the call throw an Error
\* with the message "escape: arg must not include NUL (\u0000)", whatever else
\* the string holds, before the classification (needsQuoting is not called, no
\* string is returned).
C5_NulError ==
  (Called /\ IsString /\ Contains(arg.str, {0})) =>
     /\ outcome = Throw("Error", "escape: arg must not include NUL (\\u0000)")
     /\ log[Len(log)].quoting = "not called"

\* a quote, then NUL, then a space
C5_Witness ==
  /\ Called
  /\ arg = Str(<<39, 0, 32>>)
  /\ outcome.kind = "throw"
  /\ outcome.error = "Error"

\* C5 as stated: the message is exactly "arg must not include NUL (\u0000)"
C5_Original ==
  (Called /\ IsString /\ Contains(arg.str, {0})) =>
     /\ outcome.kind = "throw"
     /\ outcome.message = "arg must not include NUL (\\u0000)"

\* C6: in a sequence of calls, two calls with the same input end the same way
\* and classify the same way, whichever calls came between, and no match
\* position is left behind by a call.
C6_Deterministic ==
  /\ \A i, j \in 1..Len(log) :
        log[i].arg = log[j].arg =>
           /\ log[i].outcome = log[j].outcome
           /\ log[i].quoting = log[j].quoting
  /\ metaLastIndex = 0
  /\ wsLastIndex = 0

\* "a$" returned quoted twice, with a failing call in between
C6_Witness ==
  /\ Len(log) = 3
  /\ log[1].arg = Str(<<36, 97>>)
  /\ log[3].arg = log[1].arg
  /\ log[2].outcome.kind = "throw"
  /\ log[1].outcome = Return(<<39, 36, 97, 39>>)
  /\ log[3].outcome = log[1].outcome

\* C7: for a string without NUL, the result holds as many occurrences of '\''
\* as the input holds single quotes.
C7_QuoteCount ==
  (Called /\ NulFree) =>
     /\ outcome.kind = "return"
     /\ Occurrences(outcome.value, <<39, 92, 39, 39>>) = CountOf(arg.str, 39)

\* a backslash and two quotes
C7_Witness ==
  /\ Called
  /\ arg = Str(<<92, 39, 39>>)
  /\ outcome.kind = "return"
  /\ Occurrences(outcome.value, <<39, 92, 39, 39>>) = 2

\* the characters hasShellMetaChars is true for
MetaCharSet == {c \in CodeUnits : hasShellMetaChars(<<c>>)}

\* C8 (as amended): the blacklist is the 20 characters listed; a string with
\* any of them anywhere is returned quoted, and hasShellMetaChars is true of a
\* character exactly when it is one of the 20.
C8_Blacklist ==
  /\ Cardinality(BlacklistListed) = 20
  /\ (Called /\ NulFree) =>
        /\ \A i \in 1..Len(arg.str) :
              hasShellMetaChars(<<arg.str[i]>>) <=> arg.str[i] \in BlacklistListed
        /\ Contains(arg.str, BlacklistListed) => outcome = Return(QuotedForm(arg.str))

\* "a#a"
C8_Witness ==
  /\ Called
  /\ arg = Str(<<97, 35, 97>>)
  /\ hasShellMetaChars(arg.str)
  /\ outcome = Return(<<39, 97, 35, 97, 39>>)

\* C8 as stated: the characters hasShellMetaChars is true for are 19
C8_Original ==
  /\ MetaCharSet = BlacklistListed
  /\ Cardinality(MetaCharSet) = 19

\* C9: a string without NUL that holds a White_Space code point at any place
\* is returned quoted, the code point kept as it is.
C9_Whitespace ==
  (Called /\ NulFree /\ Contains(arg.str, WhiteSpaceListed)) =>
     /\ hasUnicodeWhitespace(arg.str)
     /\ outcome = Return(QuotedForm(arg.str))
     /\ \A i \in 1..Len(arg.str) :
           arg.str[i] \in WhiteSpaceListed => Contains(outcome.value, {arg.str[i]})

\* a trailing U+0085
C9_Witness ==
  /\ Called
  /\ arg = Str(<<97, 133>>)
  /\ outcome = Return(<<39, 97, 133, 39>>)

\* C10: a string without NUL that holds U+0001..U+001F or U+007F is returned
\* quoted, the character kept; the control-character check is true of a code
\* unit exactly when it is in that range.
C10_Control ==
  (Called /\ IsString) =>
     /\ \A i \in 1..Len(arg.str) :
           hasAsciiControlChars(<<arg.str[i]>>) <=> arg.str[i] \in ControlListed
     /\ (NulFree /\ Contains(arg.str, ControlListed)) =>
           /\ hasAsciiControlChars(arg.str)
           /\ outcome = Return(QuotedForm(arg.str))

\* an interior DEL
C10_Witness ==
  /\ Called
  /\ arg = Str(<<97, 127, 97>>)
  /\ outcome = Return(<<39, 97, 127, 97, 39>>)

\* the arguments mapped so far, when every call returned
AllReturned == \A i \in 1..Len(log) : log[i].outcome.kind = "return"

\* C11: the literals of a list of strings without NUL, joined with one space,
\* read as as many shell words as there were arguments, the i-th word the i-th
\* argument; each literal alone is one complete word (no open quote, no
\* trailing backslash).
C11_Join ==
  AllReturned =>
     /\ ShParse(formatted) =
           [ok |-> TRUE, words |-> [i \in 1..Len(log) |-> log[i].arg.str]]
     /\ \A i \in 1..Len(log) :
           /\ ShParse(log[i].outcome.value).ok
           /\ Len(ShParse(log[i].outcome.value).words) = 1

\* -r, "x y", *x gave -r 'x y' '*x'
C11_Witness ==
  /\ Called
  /\ Len(log) = 3
  /\ log[1].arg = Str(<<45, 114>>)
  /\ log[2].arg = Str(<<120, 32, 121>>)
  /\ log[3].arg = Str(<<42, 120>>)
  /\ formatted = <<45, 114, 32, 39, 120, 32, 121, 39, 32, 39, 42, 120, 39>>
  /\ Len(ShParse(formatted).words) = 3

====
